---- MODULE Spec2Model ----
(***************************************************************************)
(* ResumeBuilder (src/app.js): a form-to-preview synchronizer.  Ten text   *)
(* inputs are mirrored into ten preview regions, the form is persisted in  *)
(* localStorage under resumeFormData, the theme under resumeTheme.         *)
(*                                                                         *)
(* A JavaScript string is a sequence of tokens: the whitespace characters  *)
(* " " and "\n", the bullet characters "-" and BULLET (U+2022), and        *)
(* whitespace-free words.  The tokens carry no HTML markup, so assigning   *)
(* innerHTML yields exactly the elements the assigned string spells out.   *)
(***************************************************************************)
EXTENDS Naturals, Sequences, FiniteSets, TLC

VARIABLES
    present,      \* the ids of the elements the host page has
    value,        \* the value property of every element
    preview,      \* the child nodes of every preview element
    href,         \* the theme the stylesheet link points to (theme-<href>.css)
    active,       \* the theme buttons whose classList holds 'active'
    formStore,    \* localStorage item resumeFormData
    themeStore,   \* localStorage item resumeTheme
    engines,      \* the ResumeBuilder objects constructed on this page
    timers,       \* the pending paste timers, in firing order
    printTimers,  \* the number of pending print timers
    failed,       \* the last event ended with an uncaught exception
    logged,       \* the last event reported an error with console.error
    lastOp,       \* the last event
    steps,        \* the number of user events so far
    fmtArg,       \* the argument of a call of formatMultilineContent
    fmtOut        \* what the call returned, <<>> before it returns

vars == <<present, value, preview, href, active, formStore, themeStore, engines,
          timers, printTimers, failed, logged, lastOp, steps, fmtArg, fmtOut>>

---------------------------------------------------------------------------
(* Bounds *)

\* user events (input, paste, click, teardown, reload) in one behaviour
MaxSteps == 3
\* pending paste timers
MaxTimers == 2
\* pending print timers
MaxPrintTimers == 1
\* length of the strings a single field change or a formatting call is tried on
MaxLen == 4
\* the inputs the user edits, counted along EditOrder
MaxEdited == 3
\* page elements missing from the host page (specification SpecMissing)
MaxMissing == 1

---------------------------------------------------------------------------
(* Strings *)

BULLET == "u2022"

Whitespace == {" ", "\n"}

Alphabet == {"a", " ", "\n", "-", BULLET}

RECURSIVE StringsUpTo(_)
StringsUpTo(n) ==
    IF n = 0 THEN {<<>>}
    ELSE LET shorter == StringsUpTo(n - 1)
         IN  shorter \cup {Append(s, c) : s \in {t \in shorter : Len(t) = n - 1}, c \in Alphabet}

\* String.prototype.trim
RECURSIVE TrimLeft(_)
TrimLeft(s) ==
    IF s # <<>> /\ Head(s) \in Whitespace THEN TrimLeft(Tail(s)) ELSE s

RECURSIVE TrimRight(_)
TrimRight(s) ==
    IF s # <<>> /\ s[Len(s)] \in Whitespace
    THEN TrimRight(SubSeq(s, 1, Len(s) - 1)) ELSE s

Trim(s) == TrimRight(TrimLeft(s))

\* String.prototype.split('\n'): the pieces between the line breaks
RECURSIVE SplitLines(_, _)
SplitLines(s, line) ==
    IF s = <<>> THEN <<line>>
    ELSE IF Head(s) = "\n" THEN <<line>> \o SplitLines(Tail(s), <<>>)
    ELSE SplitLines(Tail(s), Append(line, Head(s)))

Split(s) == SplitLines(s, <<>>)

---------------------------------------------------------------------------
(* The page and the constructor's tables *)

InputOrder == <<"input-name", "input-title", "input-phone", "input-email",
                "input-location", "input-linkedin", "input-summary",
                "input-experience", "input-education", "input-skills">>

Inputs == {InputOrder[i] : i \in 1..Len(InputOrder)}

fieldMappings ==
    [f \in Inputs |->
        CASE f = "input-name"       -> "preview-name"
          [] f = "input-title"      -> "preview-title"
          [] f = "input-phone"      -> "preview-phone"
          [] f = "input-email"      -> "preview-email"
          [] f = "input-location"   -> "preview-location"
          [] f = "input-linkedin"   -> "preview-linkedin"
          [] f = "input-summary"    -> "preview-summary"
          [] f = "input-experience" -> "preview-experience"
          [] f = "input-education"  -> "preview-education"
          [] f = "input-skills"     -> "preview-skills"]

Previews == {fieldMappings[f] : f \in Inputs}

defaultValues ==
    [p \in Previews |->
        CASE p = "preview-name"       -> <<"Your", " ", "Name">>
          [] p = "preview-title"      -> <<"Professional", " ", "Title">>
          [] p = "preview-phone"      -> <<"Phone">>
          [] p = "preview-email"      -> <<"Email">>
          [] p = "preview-location"   -> <<"Location">>
          [] p = "preview-linkedin"   -> <<"LinkedIn">>
          [] p = "preview-summary"    -> <<"Your", " ", "professional", " ", "summary",
                                           " ", "will", " ", "appear", " ", "here...">>
          [] p = "preview-experience" -> <<"Your", " ", "work", " ", "experience",
                                           " ", "will", " ", "appear", " ", "here...">>
          [] p = "preview-education"  -> <<"Your", " ", "education", " ", "details",
                                           " ", "will", " ", "appear", " ", "here...">>
          [] p = "preview-skills"     -> <<"Your", " ", "skills", " ", "will", " ",
                                           "appear", " ", "here...">>]

MultilinePreviews == {"preview-experience", "preview-education", "preview-skills"}

ThemeButtons == {"theme-modern", "theme-classic"}

Themes == {"modern", "classic"}

ThemeButton(themeName) ==
    CASE themeName = "modern"  -> "theme-modern"
      [] themeName = "classic" -> "theme-classic"
      [] OTHER                 -> "theme-other"

ButtonOrder == <<"theme-modern", "theme-classic", "print-btn", "clear-btn">>

Buttons == {ButtonOrder[i] : i \in 1..Len(ButtonOrder)}

Elements == Inputs \cup Previews \cup Buttons \cup {"theme-stylesheet"}

---------------------------------------------------------------------------
(* DOM content, JavaScript values, localStorage items *)

\* a child node of a preview element: a text node or a <div> with a class
TextNode(s) == [tag |-> "#text", class |-> "", text |-> s]

DivNode(class, s) == [tag |-> "div", class |-> class, text |-> s]

\* element.textContent = s
TextContent(s) == IF s = <<>> THEN <<>> ELSE <<TextNode(s)>>

\* a string without markup, as the nodes innerHTML makes of it
RawHtml(s) == IF s = <<>> THEN <<>> ELSE <<TextNode(s)>>

\* JavaScript values as JSON.parse can return them
JsString(s) == [t |-> "string", s |-> s]

JsNumber(n) == [t |-> "number", n |-> n]

JsNull == [t |-> "null"]

JsBoolean(b) == [t |-> "boolean", b |-> b]

\* an object: its own enumerable properties in insertion order
JsObject(members) == [t |-> "object", members |-> members]

Member(key, val) == [key |-> key, val |-> val]

\* ToBoolean, as `&& formData[inputId]` applies it
Truthy(v) ==
    CASE v.t = "string"  -> v.s # <<>>
      [] v.t = "number"  -> v.n # 0
      [] v.t = "null"    -> FALSE
      [] v.t = "boolean" -> v.b
      [] OTHER           -> TRUE

RECURSIVE Digits(_)
Digits(n) ==
    LET d == CASE n % 10 = 0 -> "0" [] n % 10 = 1 -> "1" [] n % 10 = 2 -> "2"
               [] n % 10 = 3 -> "3" [] n % 10 = 4 -> "4" [] n % 10 = 5 -> "5"
               [] n % 10 = 6 -> "6" [] n % 10 = 7 -> "7" [] n % 10 = 8 -> "8"
               [] OTHER -> "9"
    IN  IF n < 10 THEN <<d>> ELSE Append(Digits(n \div 10), d)

\* ToString, as the `value` setter of an element applies it
JsToString(v) ==
    CASE v.t = "string"  -> v.s
      [] v.t = "number"  -> Digits(v.n)
      [] v.t = "null"    -> <<"null">>
      [] v.t = "boolean" -> IF v.b THEN <<"true">> ELSE <<"false">>
      [] OTHER           -> <<"[object", " ", "Object]">>

\* A localStorage item: no item, the empty text, a text that is not JSON,
\* or a JSON text, held as the value it denotes.
NoItem == [kind |-> "absent"]

EmptyText == [kind |-> "empty"]

NotJson == [kind |-> "garbage"]

\* JSON.stringify
JSONstringify(v) == [kind |-> "json", val |-> v]

\* JSON.parse throws a SyntaxError on a text that is not JSON
JSONparseThrows(text) == text.kind # "json"

JSONparse(text) == text.val

\* localStorage.getItem('resumeTheme') when there is no item
NoTheme == "null"

\* the `value` property of an element that was never given one
NoValue == <<"undefined">>

---------------------------------------------------------------------------
(* The methods of ResumeBuilder.  d is the state a method works on: the    *)
(* document (value, content, href, active), localStorage (formStore,       *)
(* themeStore), the engines constructed so far, the pending timers, and    *)
(* thrown: an exception is propagating.  this is the engine's index.       *)

\* the preview id 'preview-' + content names, if any
PreviewNamed(content) ==
    CASE content = <<"name">>       -> "preview-name"
      [] content = <<"title">>      -> "preview-title"
      [] content = <<"phone">>      -> "preview-phone"
      [] content = <<"email">>      -> "preview-email"
      [] content = <<"location">>   -> "preview-location"
      [] content = <<"linkedin">>   -> "preview-linkedin"
      [] content = <<"summary">>    -> "preview-summary"
      [] content = <<"experience">> -> "preview-experience"
      [] content = <<"education">>  -> "preview-education"
      [] content = <<"skills">>     -> "preview-skills"
      [] OTHER                      -> "undefined"

IsBullet(line) == line # <<>> /\ Head(line) \in {BULLET, "-"}

NonEmptyLines(content) ==
    SelectSeq([i \in 1..Len(Split(content)) |-> Trim(Split(content)[i])],
              LAMBDA line : Len(line) > 0)

\* formatMultilineContent without the filter that drops the empty lines
formatMultilineContentUnfiltered(content) ==
    IF content = <<>> THEN RawHtml(content)
    ELSE LET lines == [i \in 1..Len(Split(content)) |-> Trim(Split(content)[i])]
         IN  [i \in 1..Len(lines) |->
                 IF IsBullet(lines[i]) THEN DivNode("bullet-point", lines[i])
                 ELSE DivNode("", lines[i])]

formatMultilineContent(content) ==
    IF \/ content = <<>>
       \/ /\ PreviewNamed(content) \in Previews
          /\ content = defaultValues[PreviewNamed(content)]
    THEN RawHtml(content)
    ELSE LET lines == NonEmptyLines(content)
         IN  [i \in 1..Len(lines) |->
                 IF IsBullet(lines[i]) THEN DivNode("bullet-point", lines[i])
                 ELSE DivNode("", lines[i])]

\* updatePreview with `value || default` in place of `value.trim() || default`
updatePreviewUntrimmed(d, inputId, v) ==
    LET previewId == IF inputId \in Inputs THEN fieldMappings[inputId] ELSE "undefined"
    IN  IF previewId \notin present THEN d
        ELSE IF v.t # "string" THEN [d EXCEPT !.thrown = TRUE]
        ELSE LET displayValue == IF v.s # <<>> THEN v.s ELSE defaultValues[previewId]
             IN  IF previewId \in MultilinePreviews
                 THEN [d EXCEPT !.preview[previewId] = formatMultilineContent(displayValue)]
                 ELSE [d EXCEPT !.preview[previewId] = TextContent(displayValue)]

updatePreview(d, inputId, v) ==
    LET previewId == IF inputId \in Inputs THEN fieldMappings[inputId] ELSE "undefined"
    IN  IF previewId \notin present THEN d
        ELSE IF v.t # "string" THEN [d EXCEPT !.thrown = TRUE]
        ELSE LET displayValue ==
                     IF Trim(v.s) # <<>> THEN Trim(v.s) ELSE defaultValues[previewId]
             IN  IF previewId = "preview-summary"
                 THEN [d EXCEPT !.preview[previewId] = TextContent(displayValue)]
                 ELSE IF previewId \in MultilinePreviews
                 THEN [d EXCEPT !.preview[previewId] = formatMultilineContent(displayValue)]
                 ELSE [d EXCEPT !.preview[previewId] = TextContent(displayValue)]

PresentInputs == SelectSeq(InputOrder, LAMBDA f : f \in present)

\* saveToStorage with `if (inputElement && inputElement.value)`: the empty
\* inputs are left out of the snapshot
saveToStorageNonEmpty(d) ==
    LET filled == SelectSeq(PresentInputs, LAMBDA f : d.value[f] # <<>>)
        formData == [i \in 1..Len(filled) |-> Member(filled[i], JsString(d.value[filled[i]]))]
    IN  [d EXCEPT !.formStore = JSONstringify(JsObject(formData))]

\* saveToStorage that adds the current values to the snapshot already stored
\* instead of replacing it: the stored keys it does not write are kept
saveToStorageMerging(d) ==
    LET formData ==
            [i \in 1..Len(PresentInputs) |->
                Member(PresentInputs[i], JsString(d.value[PresentInputs[i]]))]
        kept == IF d.formStore.kind = "json" /\ JSONparse(d.formStore).t = "object"
                THEN SelectSeq(JSONparse(d.formStore).members,
                               LAMBDA m : m.key \notin Inputs \cap present)
                ELSE <<>>
    IN  [d EXCEPT !.formStore = JSONstringify(JsObject(kept \o formData))]

saveToStorage(d) ==
    LET formData ==
            [i \in 1..Len(PresentInputs) |->
                Member(PresentInputs[i], JsString(d.value[PresentInputs[i]]))]
    IN  [d EXCEPT !.formStore = JSONstringify(JsObject(formData))]

\* the forEach callback of loadFromStorage over the keys from the i-th on
RECURSIVE LoadKeys(_, _, _)
LoadKeys(d, members, i) ==
    IF i > Len(members) \/ d.thrown THEN d
    ELSE LET inputId == members[i].key
             v == members[i].val
         IN  IF inputId \in present /\ Truthy(v)
             THEN LoadKeys(updatePreview([d EXCEPT !.value[inputId] = JsToString(v)],
                                         inputId, v),
                           members, i + 1)
             ELSE LoadKeys(d, members, i + 1)

\* the try block: Object.keys(null) throws, a number or a boolean has no
\* keys, and the keys of a string are indices, which name no element
LoadTry(d) ==
    IF JSONparseThrows(d.formStore) THEN [d EXCEPT !.thrown = TRUE]
    ELSE LET formData == JSONparse(d.formStore)
         IN  CASE formData.t = "null"   -> [d EXCEPT !.thrown = TRUE]
               [] formData.t = "object" -> LoadKeys(d, formData.members, 1)
               [] OTHER                 -> d

loadFromStorage(d) ==
    IF d.formStore.kind \in {"absent", "empty"} THEN d
    ELSE LET tried == LoadTry(d)
         IN  IF tried.thrown
             THEN [tried EXCEPT !.thrown = FALSE, !.logged = TRUE]
             ELSE tried

\* clearAllData without the confirm()
clearAllDataWipesStorage(d, confirmed) ==
    IF confirmed
    THEN [d EXCEPT
            !.value = [e \in Elements |->
                          IF e \in Inputs \cap present THEN <<>> ELSE d.value[e]],
            !.preview = [p \in Previews |->
                          IF p \in present THEN RawHtml(defaultValues[p])
                          ELSE d.preview[p]],
            !.formStore = NoItem,
            !.themeStore = NoTheme]
    ELSE d

clearAllDataUnasked(d, confirmed) ==
    [d EXCEPT
        !.value = [e \in Elements |->
                      IF e \in Inputs \cap present THEN <<>> ELSE d.value[e]],
        !.preview = [p \in Previews |->
                      IF p \in present THEN RawHtml(defaultValues[p])
                      ELSE d.preview[p]],
        !.formStore = NoItem]

clearAllData(d, confirmed) ==
    IF confirmed
    THEN [d EXCEPT
            !.value = [e \in Elements |->
                          IF e \in Inputs \cap present THEN <<>> ELSE d.value[e]],
            !.preview = [p \in Previews |->
                          IF p \in present THEN RawHtml(defaultValues[p])
                          ELSE d.preview[p]],
            !.formStore = NoItem]
    ELSE d

\* switchTheme without the loop that removes 'active' from the theme buttons
switchThemeUnsaved(d, this, themeName) ==
    IF "theme-stylesheet" \in present
    THEN LET styled == [d EXCEPT !.href = themeName,
                                 !.engines[this].currentTheme = themeName,
                                 !.active = {}]
         IN  IF ThemeButton(themeName) \in present
             THEN [styled EXCEPT !.active = {ThemeButton(themeName)}]
             ELSE [styled EXCEPT !.thrown = TRUE]
    ELSE d

switchThemeKeepsActive(d, this, themeName) ==
    IF "theme-stylesheet" \in present
    THEN LET styled == [d EXCEPT !.href = themeName,
                                 !.engines[this].currentTheme = themeName]
         IN  IF ThemeButton(themeName) \in present
             THEN [styled EXCEPT !.active = @ \cup {ThemeButton(themeName)},
                                 !.themeStore = themeName]
             ELSE [styled EXCEPT !.thrown = TRUE]
    ELSE d

switchTheme(d, this, themeName) ==
    IF "theme-stylesheet" \in present
    THEN LET styled == [d EXCEPT !.href = themeName,
                                 !.engines[this].currentTheme = themeName,
                                 !.active = {}]
         IN  IF ThemeButton(themeName) \in present
             THEN [styled EXCEPT !.active = {ThemeButton(themeName)},
                                 !.themeStore = themeName]
             ELSE [styled EXCEPT !.thrown = TRUE]
    ELSE d

initializeTheme(d, this) ==
    switchTheme(d, this, IF d.themeStore = NoTheme THEN "modern" ELSE d.themeStore)

printResume(d) ==
    [d EXCEPT !.printTimers = @ + 1]

\* the elements setupEventListeners attaches listeners to before it ends or
\* throws: every present input, then the buttons up to the first absent one
RECURSIVE WiredButtons(_)
WiredButtons(i) ==
    IF i > Len(ButtonOrder) \/ ButtonOrder[i] \notin present THEN {}
    ELSE {ButtonOrder[i]} \cup WiredButtons(i + 1)

setupEventListeners(d, this) ==
    [d EXCEPT !.engines[this].wired = (Inputs \cap present) \cup WiredButtons(1),
              !.thrown = ~(Buttons \subseteq present)]

init(d, this) ==
    LET wired == setupEventListeners(d, this)
    IN  IF wired.thrown THEN wired
        ELSE initializeTheme(loadFromStorage(wired), this)

\* new ResumeBuilder()
constructor(d) ==
    init([d EXCEPT !.engines = Append(@, [currentTheme |-> "modern", wired |-> {}])],
         Len(d.engines) + 1)

---------------------------------------------------------------------------
(* Events *)

\* the listener engine `this` attached for an event of type ev.type on
\* element ev.target; ev.confirmed[this] is the answer to its confirm()
Listener(d, this, ev) ==
    CASE ev.type = "input" ->
            saveToStorage(updatePreview(d, ev.target, JsString(d.value[ev.target])))
      [] ev.type = "paste" ->
            [d EXCEPT !.timers = Append(@, ev.target)]
      [] ev.type = "click" /\ ev.target = "theme-modern" ->
            switchTheme(d, this, "modern")
      [] ev.type = "click" /\ ev.target = "theme-classic" ->
            switchTheme(d, this, "classic")
      [] ev.type = "click" /\ ev.target = "print-btn" ->
            printResume(d)
      [] ev.type = "click" /\ ev.target = "clear-btn" ->
            clearAllData(d, ev.confirmed[this])

\* the browser calls the listeners of the engines from the i-th on, in the
\* order they were attached; an exception ends one listener, not the others
RECURSIVE Dispatch(_, _, _)
Dispatch(d, ev, i) ==
    IF i > Len(d.engines) THEN d
    ELSE IF ev.target \notin d.engines[i].wired THEN Dispatch(d, ev, i + 1)
    ELSE LET ran == Listener(d, i, ev)
         IN  Dispatch([ran EXCEPT !.thrown = FALSE,
                                  !.uncaught = @ \/ ran.thrown],
                      ev, i + 1)

\* the callback of a paste timer without its saveToStorage()
PasteTimeoutUnsaved(d, inputId) ==
    updatePreview(d, inputId, JsString(d.value[inputId]))

\* the callback of a paste timer of input inputId
PasteTimeout(d, inputId) ==
    saveToStorage(updatePreview(d, inputId, JsString(d.value[inputId])))

\* the beforeunload listener
BeforeUnloadListener(d) ==
    LET built == constructor(d)
    IN  IF built.thrown THEN built ELSE saveToStorage(built)

\* the DOMContentLoaded listener
DOMContentLoadedListener(d) == constructor(d)

---------------------------------------------------------------------------
(* The state machine *)

State ==
    [value |-> value, preview |-> preview, href |-> href, active |-> active,
     formStore |-> formStore, themeStore |-> themeStore, engines |-> engines,
     timers |-> timers, printTimers |-> printTimers,
     thrown |-> FALSE, uncaught |-> FALSE, logged |-> FALSE]

\* the variables after an event that ended in d
Becomes(d) ==
    /\ value' = d.value
    /\ preview' = d.preview
    /\ href' = d.href
    /\ active' = d.active
    /\ formStore' = d.formStore
    /\ themeStore' = d.themeStore
    /\ engines' = d.engines
    /\ timers' = d.timers
    /\ printTimers' = d.printTimers
    /\ failed' = (d.thrown \/ d.uncaught)
    /\ logged' = d.logged
    /\ UNCHANGED <<present, fmtArg, fmtOut>>

\* the host page as loaded: empty inputs, placeholders in the previews, the
\* modern theme linked and its button active; localStorage outlives the page
FreshPage(form, theme) ==
    [value |-> [e \in Elements |-> IF e \in Inputs THEN <<>> ELSE NoValue],
     preview |-> [p \in Previews |-> RawHtml(defaultValues[p])],
     href |-> "modern", active |-> {"theme-modern"},
     formStore |-> form, themeStore |-> theme, engines |-> <<>>,
     timers |-> <<>>, printTimers |-> 0,
     thrown |-> FALSE, uncaught |-> FALSE, logged |-> FALSE]

Op(op, target) == [op |-> op, target |-> target]

\* the inputs in the order the bounded user turns to them
EditOrder == <<"input-experience", "input-name", "input-summary", "input-skills",
               "input-education", "input-title", "input-phone", "input-email",
               "input-location", "input-linkedin">>

Edited == {EditOrder[i] : i \in 1..MaxEdited} \cap present

\* what the bounded user types or pastes
TypedValues == {<<>>, <<" ">>, <<" ", "a">>}

Wired(e) == {i \in 1..Len(engines) : e \in engines[i].wired}

\* the user changes input f to v: an input event
FieldChange(f, v) ==
    /\ Becomes(Dispatch([State EXCEPT !.value[f] = v],
                        [type |-> "input", target |-> f], 1))
    /\ lastOp' = Op("input", f)
    /\ steps' = steps + 1

Input ==
    \E f \in Edited, v \in TypedValues :
        /\ steps < MaxSteps
        /\ FieldChange(f, v)

\* the user pastes into input f: the paste event, then the browser puts v
\* into the field
Paste ==
    \E f \in Edited, v \in TypedValues :
        /\ steps < MaxSteps
        /\ Len(timers) + Cardinality(Wired(f)) <= MaxTimers
        /\ LET pasted == Dispatch(State, [type |-> "paste", target |-> f], 1)
           IN  Becomes([pasted EXCEPT !.value[f] = v])
        /\ lastOp' = Op("paste", f)
        /\ steps' = steps + 1

\* the first pending paste timer fires
PasteTimerFires ==
    /\ timers # <<>>
    /\ Becomes(PasteTimeout([State EXCEPT !.timers = Tail(@)], Head(timers)))
    /\ lastOp' = Op("timeout", Head(timers))
    /\ UNCHANGED steps

ClickTheme ==
    \E themeName \in Themes :
        /\ steps < MaxSteps
        /\ ThemeButton(themeName) \in present
        /\ Becomes(Dispatch(State, [type |-> "click",
                                    target |-> ThemeButton(themeName)], 1))
        /\ lastOp' = Op("theme", themeName)
        /\ steps' = steps + 1

ClickPrint ==
    /\ steps < MaxSteps
    /\ "print-btn" \in present
    /\ printTimers + Cardinality(Wired("print-btn")) <= MaxPrintTimers
    /\ Becomes(Dispatch(State, [type |-> "click", target |-> "print-btn"], 1))
    /\ lastOp' = Op("print", "print-btn")
    /\ steps' = steps + 1

\* a print timer fires: window.print()
PrintTimerFires ==
    /\ printTimers > 0
    /\ Becomes([State EXCEPT !.printTimers = @ - 1])
    /\ lastOp' = Op("printed", "window")
    /\ UNCHANGED steps

\* the user clicks the clear button and answers each confirm()
ClickClear ==
    \E confirmed \in [1..Len(engines) -> BOOLEAN] :
        /\ steps < MaxSteps
        /\ "clear-btn" \in present
        /\ Becomes(Dispatch(State, [type |-> "click", target |-> "clear-btn",
                                    confirmed |-> confirmed], 1))
        /\ lastOp' = Op(IF \E i \in Wired("clear-btn") : confirmed[i]
                        THEN "clear" ELSE "declined", "clear-btn")
        /\ steps' = steps + 1

\* the page is about to be torn down; it may stay (a cancelled navigation)
BeforeUnload ==
    /\ steps < MaxSteps
    /\ Becomes(BeforeUnloadListener(State))
    /\ lastOp' = Op("beforeunload", "window")
    /\ steps' = steps + 1

\* the page is loaded afresh, with the storage as it is
Reload ==
    /\ steps < MaxSteps
    /\ Becomes(DOMContentLoadedListener(FreshPage(formStore, themeStore)))
    /\ lastOp' = Op("load", "document")
    /\ steps' = steps + 1

\* one call of formatMultilineContent, on the argument drawn at the start
FormatCall ==
    /\ lastOp.op = "call"
    /\ fmtOut' = formatMultilineContent(fmtArg)
    /\ lastOp' = Op("return", "formatMultilineContent")
    /\ UNCHANGED <<present, value, preview, href, active, formStore, themeStore,
                   engines, timers, printTimers, failed, logged, steps, fmtArg>>

\* the first event on a loaded page is a change of any input to any string
AnyFieldChange ==
    \E f \in Inputs \cap present, v \in StringsUpTo(MaxLen) :
        /\ steps = 0
        /\ FieldChange(f, v)

\* the page with the elements `page` has been loaded on the storage given
PageLoaded(page, form, theme) ==
    /\ present = page
    /\ LET d == DOMContentLoadedListener(FreshPage(form, theme))
       IN  /\ value = d.value
           /\ preview = d.preview
           /\ href = d.href
           /\ active = d.active
           /\ formStore = d.formStore
           /\ themeStore = d.themeStore
           /\ engines = d.engines
           /\ timers = d.timers
           /\ printTimers = d.printTimers
           /\ failed = d.thrown
           /\ logged = d.logged
    /\ steps = 0

Loaded(page, form, theme) ==
    /\ PageLoaded(page, form, theme)
    /\ lastOp = Op("load", "document")
    /\ fmtArg = <<>>
    /\ fmtOut = <<>>

\* the first visit: the whole page, nothing stored
Init == Loaded(Elements, NoItem, NoTheme)

Next ==
    \/ Input
    \/ Paste
    \/ PasteTimerFires
    \/ ClickTheme
    \/ ClickPrint
    \/ PrintTimerFires
    \/ ClickClear
    \/ BeforeUnload
    \/ Reload

Spec == Init /\ [][Next]_vars

\* resumeFormData texts that no saveToStorage of this page wrote
ForeignItems ==
    {EmptyText, NotJson,
     JSONstringify(JsNull),
     JSONstringify(JsNumber(5)),
     JSONstringify(JsString(<<"a">>)),
     JSONstringify(JsObject(<<Member("input-name", JsNull)>>)),
     JSONstringify(JsObject(<<Member("input-name", JsNumber(5)),
                              Member("input-title", JsString(<<"a">>))>>)),
     JSONstringify(JsObject(<<Member("input-skills", JsObject(<<>>))>>)),
     JSONstringify(JsObject(<<Member("input-name", JsString(<<"a">>)),
                              Member("input-email", JsBoolean(TRUE))>>)),
     JSONstringify(JsObject(<<Member("preview-name", JsString(<<"a">>))>>)),
     JSONstringify(JsObject(<<Member("clear-btn", JsString(<<"a">>)),
                              Member("no-such-id", JsString(<<"a">>))>>))}

InitStored == \E form \in ForeignItems : Loaded(Elements, form, NoTheme)

\* the page started on a resumeFormData item it did not write
SpecStored == InitStored /\ [][Next]_vars

InitMissing ==
    \E missing \in SUBSET Elements :
        /\ Cardinality(missing) <= MaxMissing
        /\ Loaded(Elements \ missing, NoItem, NoTheme)

\* a host page that lacks some of the elements
SpecMissing == InitMissing /\ [][Next]_vars

\* one change of one input, over every string up to MaxLen
SpecFieldChange == Init /\ [][AnyFieldChange]_vars

\* the example of the specification: "- a\n\nb\n(bullet) c"
Example == <<"-", " ", "a", "\n", "\n", "b", "\n", BULLET, " ", "c">>

InitFormat ==
    /\ PageLoaded(Elements, NoItem, NoTheme)
    /\ lastOp = Op("call", "formatMultilineContent")
    /\ fmtArg \in StringsUpTo(MaxLen) \cup {Example}
    /\ fmtOut = <<>>

\* formatMultilineContent as a function, over every string up to MaxLen
SpecFormat == InitFormat /\ [][FormatCall]_vars

---------------------------------------------------------------------------
(* Properties *)

\* the preview of the input the last event was about
LastPreview == fieldMappings[lastOp.target]

\* trim(v), or the placeholder when that is empty, for the last input event
LastDisplay ==
    IF Trim(value[lastOp.target]) # <<>> THEN Trim(value[lastOp.target])
    ELSE defaultValues[LastPreview]

\* the text a reader sees in a preview: its text nodes as they are, each
\* <div> on a line of its own
RECURSIVE Shown(_)
Shown(nodes) ==
    IF nodes = <<>> THEN <<>>
    ELSE IF Len(nodes) = 1 THEN nodes[1].text
    ELSE nodes[1].text \o <<"\n">> \o Shown(Tail(nodes))

OthersUnchanged ==
    \A q \in Previews \ {LastPreview'} : preview'[q] = preview[q]

\* C1 as stated: after onFieldChange(f, v) the preview of f shows trim(v),
\* or the placeholder when trim(v) is empty, and no other preview changes.
C1_ShowsTrimmedValue ==
    [][lastOp'.op = "input" =>
          /\ Shown(preview'[LastPreview']) = LastDisplay'
          /\ OthersUnchanged]_vars

\* C1 amended: after onFieldChange(f, v) the preview of a single-line field
\* or of the summary holds trim(v), or the placeholder, as one text; the
\* preview of a multi-line field (experience, education, skills) holds
\* formatMultilineContent of it: one block per non-blank line, each trimmed,
\* blank lines dropped.  No other preview changes.
C1_ShowsFormattedValue ==
    [][lastOp'.op = "input" =>
          /\ LastPreview' \notin MultilinePreviews =>
                preview'[LastPreview'] = <<TextNode(LastDisplay')>>
          /\ LastPreview' \in MultilinePreviews =>
                preview'[LastPreview'] = formatMultilineContent(LastDisplay')
          /\ OthersUnchanged]_vars

\* a multi-line field was changed to a value with a blank line inside, and
\* its preview holds two blocks
C1_Witness ==
    /\ lastOp = Op("input", "input-experience")
    /\ value["input-experience"] = <<"a", "\n", "\n", "-">>
    /\ Len(preview["preview-experience"]) = 2

\* the value the stored snapshot holds for input f
StoredValue(text, f) ==
    LET members == JSONparse(text).members
    IN  members[CHOOSE i \in 1..Len(members) : members[i].key = f].val

\* text is a snapshot: a JSON object with one string for every input
IsSnapshot(text) ==
    /\ text.kind = "json"
    /\ JSONparse(text).t = "object"
    /\ \A f \in Inputs :
          \E i \in 1..Len(JSONparse(text).members) :
              /\ JSONparse(text).members[i].key = f
              /\ JSONparse(text).members[i].val.t = "string"

\* the events whose listeners end with saveToStorage()
Saves == {"input", "timeout", "beforeunload"}

\* C2: round trip.  saveSnapshot() stores the value every input holds, empty
\* ones included, and a fresh start (all inputs empty) followed by
\* loadSnapshot() gives every input exactly the value stored for it.
C2_RoundTrip ==
    [][/\ lastOp'.op \in Saves =>
             /\ IsSnapshot(formStore')
             /\ \A f \in Inputs : StoredValue(formStore', f) = JsString(value'[f])
       /\ (lastOp'.op = "load" /\ IsSnapshot(formStore)) =>
             \A f \in Inputs : JsString(value'[f]) = StoredValue(formStore, f)]_vars

\* a fresh start has restored a snapshot with an empty value and one with a
\* leading space
C2_Witness ==
    /\ lastOp.op = "load"
    /\ steps > 0
    /\ IsSnapshot(formStore)
    /\ value["input-name"] = <<" ", "a">>
    /\ value["input-summary"] = <<>>
    /\ value["input-experience"] = <<" ">>

InputsEmpty == \A f \in Inputs : value[f] = <<>>

PreviewsDefault == \A p \in Previews : Shown(preview[p]) = defaultValues[p]

\* C3: after a confirmed clearAll() every input is empty, every preview shows
\* its placeholder and resumeFormData is absent; with no further user input
\* it is still absent after the teardown handler has run.
C3_ClearedStaysAbsent ==
    [][/\ lastOp'.op = "clear" => (InputsEmpty' /\ PreviewsDefault' /\ formStore' = NoItem)
       /\ (lastOp.op = "clear" /\ lastOp'.op = "beforeunload") => formStore' = NoItem]_vars

\* C4: a clearAll() the user declines changes no input, no preview, neither
\* stored item and nothing of the theme.
C4_DeclinedChangesNothing ==
    [][lastOp'.op = "declined" =>
          UNCHANGED <<value, preview, formStore, themeStore, href, active, engines>>]_vars

\* a clear was declined on a filled, saved form
C4_Witness ==
    /\ lastOp.op = "declined"
    /\ formStore # NoItem
    /\ value["input-name"] = <<" ", "a">>
    /\ Len(preview["preview-experience"]) = 1
    /\ preview["preview-experience"][1].tag = "div"

\* text is stored but is no well-formed snapshot: not JSON, not an object, or
\* an object with a value that is no string
IsCorrupt(text) ==
    \/ text.kind \in {"empty", "garbage"}
    \/ /\ text.kind = "json"
       /\ \/ JSONparse(text).t # "object"
          \/ \E i \in 1..Len(JSONparse(text).members) :
                JSONparse(text).members[i].val.t # "string"

FreshInputs == \A e \in Elements : value[e] = IF e \in Inputs THEN <<>> ELSE NoValue

FreshPreviews == \A p \in Previews : preview[p] = RawHtml(defaultValues[p])

\* C5: on a stored resumeFormData that is no well-formed snapshot, startup
\* completes without a failure and loadSnapshot() changes no input and no
\* preview.
C5_CorruptIsNoOp ==
    (lastOp.op = "load" /\ IsCorrupt(formStore)) =>
        (~failed /\ FreshInputs /\ FreshPreviews)

\* the engine the last startup constructed
Newest == engines[Len(engines)]

\* C6: switchTheme(t) stores t, and a later startup that reads the theme from
\* storage makes t the current theme, with the selector of t active and the
\* other selector not.
C6_ThemeRestored ==
    [][/\ lastOp'.op = "theme" => themeStore' = lastOp'.target
       /\ (lastOp'.op \in {"load", "beforeunload"} /\ themeStore # NoTheme) =>
             /\ Newest'.currentTheme = themeStore
             /\ href' = themeStore
             /\ active' = {ThemeButton(themeStore)}]_vars

\* a fresh start after switchTheme("classic")
C6_Witness ==
    /\ lastOp.op = "load"
    /\ steps > 0
    /\ Newest.currentTheme = "classic"
    /\ active = {"theme-classic"}

LineStarts == {1} \cup {i + 1 : i \in {j \in 1..Len(fmtArg) : fmtArg[j] = "\n"}}

LineEnd(a) ==
    IF \E j \in a..Len(fmtArg) : fmtArg[j] = "\n"
    THEN (CHOOSE j \in a..Len(fmtArg) :
              /\ fmtArg[j] = "\n"
              /\ \A k \in a..(j - 1) : fmtArg[k] # "\n") - 1
    ELSE Len(fmtArg)

\* the positions of line a that hold something other than whitespace
Inked(a) == {i \in a..LineEnd(a) : fmtArg[i] \notin Whitespace}

First(S) == CHOOSE i \in S : \A j \in S : i <= j

Last(S) == CHOOSE i \in S : \A j \in S : j <= i

NonBlank == {a \in LineStarts : Inked(a) # {}}

\* C8: for non-empty content formatMultiline yields one block per line that
\* is non-empty after trimming, in the order of the lines, each block holding
\* its trimmed line, tagged bullet exactly when that line begins with the
\* bullet character or "-"; the example of the specification gives bullet
\* "- a", plain "b", bullet "(bullet) c".
C8_OneBlockPerLine ==
    (lastOp.op = "return" /\ fmtArg # <<>>) =>
        /\ Len(fmtOut) = Cardinality(NonBlank)
        /\ \A a \in NonBlank :
              LET block == fmtOut[Cardinality({b \in NonBlank : b <= a})]
              IN  /\ block.tag = "div"
                  /\ block.text = SubSeq(fmtArg, First(Inked(a)), Last(Inked(a)))
                  /\ block.class \in {"", "bullet-point"}
                  /\ block.class = "bullet-point" <=>
                        fmtArg[First(Inked(a))] \in {BULLET, "-"}
        /\ fmtArg = Example =>
              fmtOut = <<DivNode("bullet-point", <<"-", " ", "a">>),
                         DivNode("", <<"b">>),
                         DivNode("bullet-point", <<BULLET, " ", "c">>)>>

\* the call on the example has returned its three blocks
C8_Witness ==
    /\ lastOp.op = "return"
    /\ fmtArg = Example
    /\ Len(fmtOut) = 3

\* C9: whichever elements the page lacks, initialize() and every other
\* operation complete without failing and take effect on the elements that
\* are there: every present input and button has its listeners, and a
\* startup or a theme click leaves the present selector of the theme active.
C9_MissingTolerated ==
    /\ ~failed
    /\ \A i \in 1..Len(engines) :
          engines[i].wired = (Inputs \cup Buttons) \cap present
    /\ (lastOp.op \in {"load", "theme"} /\ ThemeButton(Newest.currentTheme) \in present) =>
          ThemeButton(Newest.currentTheme) \in active

\* C10: an identifier that is no key of the field mapping is ignored:
\* loadSnapshot() writes stored values into mapped inputs only, so no other
\* element ever gets a value, and a stored key that is no mapped input
\* changes no preview.
C10_UnknownIdsIgnored ==
    /\ \A e \in Elements \ Inputs : value[e] = NoValue
    /\ (/\ lastOp.op = "load"
        /\ formStore.kind = "json"
        /\ JSONparse(formStore).t = "object"
        /\ \A i \in 1..Len(JSONparse(formStore).members) :
              JSONparse(formStore).members[i].key \notin Inputs) => FreshPreviews

\* C11: saveSnapshot() is idempotent and a total overwrite.  After any call
\* the stored snapshot holds exactly the mapped inputs, each with its current
\* value, and nothing of what was stored before; a second call with no input
\* change in between leaves both stored items as the first call left them.
C11_SaveOverwrites ==
    lastOp.op \in Saves =>
        /\ formStore.kind = "json"
        /\ JSONparse(formStore).t = "object"
        /\ Len(JSONparse(formStore).members) = Len(InputOrder)
        /\ \A i \in 1..Len(InputOrder) :
              JSONparse(formStore).members[i] =
                  Member(InputOrder[i], JsString(value[InputOrder[i]]))
        /\ saveToStorage(State).formStore = formStore
        /\ saveToStorage(State).themeStore = themeStore

\* a save has replaced a stored item that held a number and a key of its own
C11_Witness ==
    /\ lastOp = Op("input", "input-experience")
    /\ value["input-name"] = <<"5">>
    /\ value["input-experience"] = <<" ", "a">>
    /\ IsSnapshot(formStore)

\* preview pv and stored text hold value v of input f: the preview of f holds
\* what updatePreview makes of v, and the stored snapshot holds v for f
ReflectsIn(pv, text, f, v) ==
    LET display == IF Trim(v) # <<>> THEN Trim(v) ELSE defaultValues[fieldMappings[f]]
    IN  /\ pv[fieldMappings[f]] =
              IF fieldMappings[f] \in MultilinePreviews
              THEN formatMultilineContent(display)
              ELSE <<TextNode(display)>>
        /\ IsSnapshot(text)
        /\ StoredValue(text, f) = JsString(v)

\* the same, of the page as it is now
Reflects(f, v) == ReflectsIn(preview, formStore, f, v)

\* with no paste update pending, a stored snapshot holds the live value of
\* every input
StoredIsLive ==
    (timers = <<>> /\ formStore # NoItem) =>
        /\ IsSnapshot(formStore)
        /\ \A f \in Inputs : StoredValue(formStore, f) = JsString(value[f])

C13_EmptyShowsRawDefault ==
    (/\ lastOp.op = "input"
     /\ LastPreview \in MultilinePreviews
     /\ Trim(value[lastOp.target]) = <<>>) =>
        /\ formatMultilineContent(defaultValues[LastPreview]) =
              RawHtml(defaultValues[LastPreview])
        /\ preview[LastPreview] = RawHtml(defaultValues[LastPreview])
        /\ preview[LastPreview] = clearAllData(State, TRUE).preview[LastPreview]

\* d has the theme of the page as it is now: the in-memory theme of every
\* engine, the active selector and the stored resumeTheme
SameTheme(d) ==
    /\ d.engines = engines
    /\ d.active = active
    /\ d.themeStore = themeStore

\* d has the form of the page as it is now: every input value, every preview
\* and the stored snapshot
SameForm(d) ==
    /\ d.value = value
    /\ d.preview = preview
    /\ d.formStore = formStore

\* C14: switchTheme leaves every input value, every preview and the stored
\* snapshot unchanged; a field change, saveToStorage, loadFromStorage and
\* clearAllData (confirmed or declined) leave the in-memory theme, the active
\* selector and the stored resumeTheme unchanged.
C14_ThemeAndFormIndependent ==
    /\ [](/\ \A this \in 1..Len(engines) : \A themeName \in Themes :
                SameForm(switchTheme(State, this, themeName))
          /\ \A f \in Inputs :
                SameTheme(Listener(State, 1, [type |-> "input", target |-> f]))
          /\ SameTheme(saveToStorage(State))
          /\ SameTheme(loadFromStorage(State))
          /\ \A confirmed \in BOOLEAN : SameTheme(clearAllData(State, confirmed)))
    /\ [][/\ lastOp'.op = "theme" => UNCHANGED <<value, preview, formStore>>
          /\ lastOp'.op \in {"input", "timeout", "clear", "declined"} =>
                UNCHANGED <<engines, active, themeStore>>]_vars

\* the classic theme was chosen and stored, and a confirmed clear has emptied
\* the form
C14_Witness ==
    /\ lastOp.op = "clear"
    /\ themeStore = "classic"
    /\ active = {"theme-classic"}
    /\ formStore = NoItem
    /\ InputsEmpty

\* C15: in every state of a loaded page, the current theme of every engine is
\* modern or classic and equals the stored resumeTheme, and exactly one
\* selector, the one of the current theme, is active; a page loaded with no
\* stored theme has the modern theme.
C15_ThemeInvariant ==
    /\ engines # <<>>
    /\ \A i \in 1..Len(engines) :
          /\ engines[i].currentTheme \in Themes
          /\ engines[i].currentTheme = themeStore
          /\ active = {ThemeButton(engines[i].currentTheme)}
    /\ LET d == DOMContentLoadedListener(FreshPage(formStore, NoTheme))
       IN  /\ d.engines[1].currentTheme = "modern"
           /\ d.themeStore = "modern"
           /\ d.active = {"theme-modern"}
    /\ (lastOp.op = "load" /\ steps = 0) => Newest.currentTheme = "modern"

\* the classic theme was chosen on a page on which the teardown handler has
\* built a second engine
C15_Witness ==
    /\ lastOp = Op("theme", "classic")
    /\ Len(engines) = 2
    /\ engines[1].currentTheme = "classic"
    /\ engines[2].currentTheme = "classic"
    /\ themeStore = "classic"
    /\ active = {"theme-classic"}

\* C16: when the deferred update of a paste fires after a confirmed
\* clearAllData, the stored snapshot stays absent and every preview keeps the
\* content clearAllData gave it.
C16_TimerKeepsClear ==
    [][(lastOp.op = "clear" /\ lastOp'.op = "timeout") =>
          /\ formStore' = NoItem
          /\ preview' = preview
          /\ PreviewsDefault']_vars

\* the page as it is now with a second engine wired like the newest one, and
\* nothing else changed
Rewired == [State EXCEPT !.engines = Append(@, Newest)]

====
